---- MODULE Spec2Model ----
(***************************************************************************)
(* Token lifecycle of the CJDropshipping client.                           *)
(*                                                                         *)
(*   auth.py    get_access_token, refresh_token, get_stored_token          *)
(*   client.py  CJDropshippingClient._ensure_valid_token                   *)
(*                                                                         *)
(* The ".token" file, the vendor's answers and the clock are the           *)
(* environment.  Every blocking point of the code (a POST, the open() that *)
(* truncates the file, the dump that fills it) is one step of a thread.    *)
(* Under Spec one thread runs the operations one after the other.          *)
(***************************************************************************)
EXTENDS Integers, Sequences, FiniteSets, TLC

VARIABLES
    tokenFile,      \* the ".token" file on disk
    now,            \* datetime.now(timezone.utc), in whole time units
    credentials,    \* TRUE iff CJDROPSHIPPING_EMAIL and _API_KEY are both set
    access_token,   \* CJDropshippingClient.access_token (shared attribute)
    thread          \* per thread: program counter, locals and call history

vars == <<tokenFile, now, credentials, access_token, thread>>

----------------------------------------------------------------------------
(* Bounds *)

MaxNow == 2          \* the clock runs over 0..MaxNow
NumThreads == 2      \* threads that may use the shared client

Threads == 1..NumThreads
MainThread == 1
Far == MaxNow + 1    \* an instant no clock value reaches

----------------------------------------------------------------------------
(* JSON values: what json.load returns and json.dump writes *)

NoKey == "<no key>"        \* the key is not in the dict
NoToken == "<unset>"       \* attribute not assigned yet

\* value of the accessTokenExpiryDate key
\*   fmt "Z"       ISO-8601 ending in Z
\*   fmt "offset"  ISO-8601 ending in +0h:00, wall clock `wall`, h = `off`
\*   fmt "naive"   ISO-8601 without any suffix
\*   fmt "bad"     a string that is not ISO-8601
\*   fmt "nonstr"  not a string (number, null, ...)
\*   fmt "nokey"   the key is not in the dict
Expiry(fmt, wall, off) == [fmt |-> fmt, wall |-> wall, off |-> off]
NoExpiry == Expiry("nokey", 0, 0)

\* kind "null":   JSON null / Python None
\* kind "object": a dict with some of the three keys ({} when it has none)
\* kind "other":  any truthy value with none of the three keys
Obj(at, exp, rt) ==
    [kind |-> "object", accessToken |-> at, accessTokenExpiryDate |-> exp,
     refreshToken |-> rt]
None == [kind |-> "null", accessToken |-> NoKey,
         accessTokenExpiryDate |-> NoExpiry, refreshToken |-> NoKey]
EmptyDict == Obj(NoKey, NoExpiry, NoKey)
Other == [kind |-> "other", accessToken |-> NoKey,
          accessTokenExpiryDate |-> NoExpiry, refreshToken |-> NoKey]

\* Python truth value: `if not token_data`
Truthy(v) ==
    \/ v.kind = "other"
    \/ /\ v.kind = "object"
       /\ \/ v.accessToken # NoKey
          \/ v.accessTokenExpiryDate.fmt # "nokey"
          \/ v.refreshToken # NoKey

\* v[key] succeeds
HasKey(v, key) ==
    /\ v.kind = "object"
    /\ CASE key = "accessToken" -> v.accessToken # NoKey
         [] key = "accessTokenExpiryDate" -> v.accessTokenExpiryDate.fmt # "nokey"
         [] key = "refreshToken" -> v.refreshToken # NoKey

\* a TokenRecord: all three keys present
IsTokenRecord(v) ==
    /\ HasKey(v, "accessToken")
    /\ HasKey(v, "accessTokenExpiryDate")
    /\ HasKey(v, "refreshToken")

----------------------------------------------------------------------------
(* The ".token" file *)

\* The text json.dump writes: the literal of the value's kind and, for a
\* dict, one member per key in the order of the dict.
Member(key, str, exp) == [key |-> key, str |-> str, exp |-> exp]
Text(lit, members) == [lit |-> lit, members |-> members]
NoText == Text("", << >>)

\* json.dumps that leaves the expiry out
dumps_tokens_only(v) ==
    Text(v.kind,
         (IF HasKey(v, "accessToken")
          THEN << Member("accessToken", v.accessToken, NoExpiry) >>
          ELSE << >>) \o
         (IF HasKey(v, "refreshToken")
          THEN << Member("refreshToken", v.refreshToken, NoExpiry) >>
          ELSE << >>))

\* json.dumps(v)
dumps(v) ==
    Text(v.kind,
         (IF HasKey(v, "accessToken")
          THEN << Member("accessToken", v.accessToken, NoExpiry) >>
          ELSE << >>) \o
         (IF HasKey(v, "accessTokenExpiryDate")
          THEN << Member("accessTokenExpiryDate", "", v.accessTokenExpiryDate) >>
          ELSE << >>) \o
         (IF HasKey(v, "refreshToken")
          THEN << Member("refreshToken", v.refreshToken, NoExpiry) >>
          ELSE << >>))

\* the members of `text` named `key`; the last one wins in json.loads
Members(text, key) == SelectSeq(text.members, LAMBDA m : m.key = key)

\* json.loads(text) of a complete text
loads(text) ==
    IF text.lit = "null" THEN None
    ELSE IF text.lit = "other" THEN Other
    ELSE LET at == Members(text, "accessToken")
             ex == Members(text, "accessTokenExpiryDate")
             rt == Members(text, "refreshToken")
         IN  Obj(IF at = << >> THEN NoKey ELSE at[Len(at)].str,
                 IF ex = << >> THEN NoExpiry ELSE ex[Len(ex)].exp,
                 IF rt = << >> THEN NoKey ELSE rt[Len(rt)].str)

\* state "missing": os.path.exists is False
\* state "empty":   opened with "w", nothing written yet
\* state "garbage": bytes json.load cannot parse
\* state "json":    the text json.dump wrote, in `value`
File(state, value) == [state |-> state, value |-> value]
NoFile == File("missing", NoText)
Truncated == File("empty", NoText)
Garbage == File("garbage", NoText)

\* the whole envelope's token written without its refresh token
json_dump_partial(v) ==
    [state |-> "json", value |-> dumps([v EXCEPT !.refreshToken = NoKey])]

\* json.dump(v, token_file) followed by the close of the with block
json_dump(v) == File("json", dumps(v))

\* the file read as text, without json.load and without the try of line 120
get_stored_token_raw(f) ==
    IF f.state = "missing" \/ f.state = "empty" THEN None
    ELSE IF f.state = "json" THEN loads(f.value)
    ELSE Other

\* auth.py get_stored_token
get_stored_token(f) ==
    IF f.state = "missing" THEN None
    ELSE IF f.state = "json" THEN loads(f.value)
    ELSE None      \* json.load raised, swallowed by `except Exception`

----------------------------------------------------------------------------
(* Expiry check: client.py lines 40-42 *)

\* datetime.fromisoformat(s) without the replace of the Z suffix, which the
\* parser of Python before 3.11 rejects
fromisoformat_noreplace(e) ==
    CASE e.fmt = "offset" ->
            [parsed |-> TRUE, aware |-> TRUE, utc |-> e.wall - e.off]
      [] e.fmt = "naive" -> [parsed |-> TRUE, aware |-> FALSE, utc |-> e.wall]
      [] OTHER -> [parsed |-> FALSE, aware |-> FALSE, utc |-> 0]

\* datetime.fromisoformat(s.replace('Z', '+00:00')):
\* parsed is FALSE when the call raises, aware tells whether the result has
\* a tzinfo, utc is the instant of an aware result
fromisoformat(e) ==
    CASE e.fmt = "Z" -> [parsed |-> TRUE, aware |-> TRUE, utc |-> e.wall]
      [] e.fmt = "offset" ->
            [parsed |-> TRUE, aware |-> TRUE, utc |-> e.wall - e.off]
      [] e.fmt = "naive" -> [parsed |-> TRUE, aware |-> FALSE, utc |-> e.wall]
      [] OTHER -> [parsed |-> FALSE, aware |-> FALSE, utc |-> 0]

\* the comparison of line 42 with `<` in place of `<=`
IsExpired_strict(utc, n) == utc < n

\* `expiry_date <= now`, the comparison of line 42
IsExpired(utc, n) == utc <= n

\* "raise": an exception reaches `except Exception` of line 50
\*    KeyError (no key), AttributeError (not a string), ValueError (not ISO),
\*    TypeError (naive compared with the aware now)
CheckExpiry(token_data, n) ==
    IF ~HasKey(token_data, "accessTokenExpiryDate") THEN "raise"
    ELSE LET e == token_data.accessTokenExpiryDate
             d == fromisoformat(e)
         IN  IF e.fmt = "nonstr" \/ ~d.parsed \/ ~d.aware THEN "raise"
             ELSE IF IsExpired(d.utc, n) THEN "expired"
             ELSE "valid"

----------------------------------------------------------------------------
(* Vendor answers to a POST on an authentication endpoint *)

StatusOK == 200
StatusError == StatusOK + 300     \* some status other than 200
CodeOK == 200
CodeRejected == CodeOK + 201      \* some business code other than 200

\* raises:  requests.post raised (transport failure)
\* json_ok: response.json() returns a dict
Response(raises, status_code, json_ok, code, data) ==
    [raises |-> raises, status_code |-> status_code, json_ok |-> json_ok,
     code |-> code, data |-> data]

NoResponse == Response(FALSE, 0, FALSE, 0, None)
TransportFailure == Response(TRUE, 0, FALSE, 0, None)
HttpError == Response(FALSE, StatusError, FALSE, 0, None)
NotJson == Response(FALSE, StatusOK, FALSE, 0, None)
ApiError == Response(FALSE, StatusOK, TRUE, CodeRejected, None)
Success(data) == Response(FALSE, StatusOK, TRUE, CodeOK, data)

VendorTokens == {"AT1", "AT2"}
VendorExpiries == {Expiry("Z", Far, 0), Expiry("Z", 1, 0), Expiry("naive", Far, 0)}

\* complete records the vendor issues
VendorRecords ==
    {Obj(at, e, "RT1") : at \in VendorTokens, e \in VendorExpiries}

\* the "data" member of a success envelope
VendorData ==
    VendorRecords \cup
    { None, EmptyDict, Other,
      Obj(NoKey, Expiry("Z", Far, 0), "RT1"),
      Obj("AT1", NoExpiry, "RT1"),
      Obj("AT1", Expiry("Z", Far, 0), NoKey) }

Responses ==
    {TransportFailure, HttpError, NotJson, ApiError} \cup
    {Success(d) : d \in VendorData}

\* the test of line 51 / 95 left out
IsSuccess_nocode(resp) ==
    /\ ~resp.raises
    /\ resp.status_code = StatusOK
    /\ resp.json_ok

\* auth.py lines 49-51 / 93-95: the branch that writes the file
\* (an exception of response.json() or data.get is caught at line 66 / 109)
IsSuccess(resp) ==
    /\ ~resp.raises
    /\ resp.status_code = StatusOK
    /\ resp.json_ok
    /\ resp.code = CodeOK

----------------------------------------------------------------------------
(* Vendor answers to a business request: client.py lines 91-106 *)

\* the parsed envelope {code, result, message, data}
\*   code 0: no "code" member;  result "absent": no "result" member
Body(code, result, message, data) ==
    [code |-> code, result |-> result, message |-> message, data |-> data]
NoBody == Body(0, "absent", "", "")

\* raises: requests.request raised;  text: response.text;
\* json_ok: response.json() succeeds and yields `body`
BusinessResponse(raises, status_code, text, json_ok, body) ==
    [raises |-> raises, status_code |-> status_code, text |-> text,
     json_ok |-> json_ok, body |-> body]
NoBusinessResponse == BusinessResponse(FALSE, 0, "", FALSE, NoBody)

Bodies ==
    {Body(c, r, "success", "payload") :
        c \in {0, CodeOK, CodeRejected}, r \in {"true", "absent"}} \cup
    {Body(c, "false", m, "") :
        c \in {0, CodeOK, CodeRejected},
        m \in {"insufficient balance", "token expired"}}

BusinessResponses ==
    {BusinessResponse(TRUE, 0, "", FALSE, NoBody)} \cup
    {BusinessResponse(FALSE, StatusError, x, FALSE, NoBody) :
        x \in {"Bad Gateway", "Unauthorized"}} \cup
    {BusinessResponse(FALSE, StatusError, "json", TRUE,
                      Body(CodeRejected, "false", "token expired", ""))} \cup
    {BusinessResponse(FALSE, StatusOK, "html", FALSE, NoBody)} \cup
    {BusinessResponse(FALSE, StatusOK, "json", TRUE, b) : b \in Bodies}

\* how a call of _make_request ends
\*   "returned"       `return data` of line 104, with the body
\*   "api_error"      the Exception of line 103, with message and code
\*   "http_error"     the Exception of line 106, with status and text
\*   "network_error"  the exception of requests.request
\*   "decode_error"   the exception of response.json()
\*   "auth_error"     the exception of _ensure_valid_token
Outcome(kind, status, code, message, text, body) ==
    [kind |-> kind, status |-> status, code |-> code, message |-> message,
     text |-> text, body |-> body]
NoOutcome == Outcome("none", 0, 0, "", "", NoBody)

\* lines 100-106 with the status test left out
Classify_anystatus(resp) ==
    IF resp.raises THEN Outcome("network_error", 0, 0, "", "", NoBody)
    ELSE IF ~resp.json_ok THEN Outcome("decode_error", 0, 0, "", "", NoBody)
    ELSE IF resp.body.code # CodeOK /\ resp.body.result = "false"
    THEN Outcome("api_error", 0, resp.body.code, resp.body.message, "",
                 NoBody)
    ELSE Outcome("returned", 0, 0, "", "", resp.body)

\* lines 100-106 with `or` in the test of line 102
Classify_or(resp) ==
    IF resp.raises THEN Outcome("network_error", 0, 0, "", "", NoBody)
    ELSE IF resp.status_code = StatusOK
    THEN IF ~resp.json_ok
         THEN Outcome("decode_error", 0, 0, "", "", NoBody)
         ELSE IF resp.body.code # CodeOK \/ resp.body.result = "false"
         THEN Outcome("api_error", 0, resp.body.code, resp.body.message, "",
                      NoBody)
         ELSE Outcome("returned", 0, 0, "", "", resp.body)
    ELSE Outcome("http_error", resp.status_code, 0, "", resp.text, NoBody)

\* lines 91-106: the outcome of the call for the answer `resp`
Classify(resp) ==
    IF resp.raises THEN Outcome("network_error", 0, 0, "", "", NoBody)
    ELSE IF resp.status_code = StatusOK
    THEN IF ~resp.json_ok
         THEN Outcome("decode_error", 0, 0, "", "", NoBody)
         ELSE IF resp.body.code # CodeOK /\ resp.body.result = "false"
         THEN Outcome("api_error", 0, resp.body.code, resp.body.message, "",
                      NoBody)
         ELSE Outcome("returned", 0, 0, "", "", resp.body)
    ELSE Outcome("http_error", resp.status_code, 0, "", resp.text, NoBody)

\* an error answer makes the call start over with the guard
AfterResponse_retry(outcome) ==
    IF outcome.kind \in {"api_error", "http_error"} THEN "ensure" ELSE "end"

\* lines 103-106: every outcome leaves _make_request
AfterResponse(outcome) == "end"

----------------------------------------------------------------------------
(* Threads *)

\* pc      "idle", "ensure" (line 30), "get_access_token" (auth.py line 22),
\*         "refresh_token" (line 80), "open" (line 54 / 98), "dump" (line 55 /
\*         99), "return" (line 56 / 100 and the None returns), "done"
\* op      the operation in progress: "ensure" (_ensure_valid_token),
\*         "authenticate" (get_access_token called alone), "refresh"
\*         (refresh_token called alone), "none"
\* fn      the auth.py function being executed
\* site    the line of _ensure_valid_token that called fn
\* token_data   the local of _ensure_valid_token
\* data    data.get('data') inside fn; ret: the value fn returns
\* caller  "_make_request" when the guard runs at line 77, else "none"
\* The remaining fields record the history of the operation in progress.
Idle ==
    [pc |-> "idle", op |-> "none", fn |-> "none", site |-> "none",
     token_data |-> None, data |-> None, ret |-> None,
     fileAtCall |-> NoFile,     \* the file when the operation began
     fileAtFn |-> NoFile,       \* the file when fn began
     loaded |-> None,           \* what get_stored_token returned at line 30
     verdict |-> "none",        \* "absent", "valid", "expired", "raise"
     nowRead |-> 0,             \* `now` of line 41
     resp |-> NoResponse,       \* the answer to fn's POST
     posted |-> FALSE,          \* fn sent its POST
     nRefresh |-> 0,            \* POSTs to refreshAccessToken
     nAuth |-> 0,               \* POSTs to getAccessToken
     refreshResp |-> NoResponse, \* the answer to refresh_token's POST
     refreshRet |-> None,       \* what refresh_token returned
     refreshFailed |-> FALSE,   \* refresh_token returned a falsy value
     authRet |-> << >>,         \* what each get_access_token call returned
     source |-> "none",         \* where the final token_data came from
     result |-> "none",         \* "ok", "error"
     token |-> NoToken,         \* self.access_token assigned at line 57
     caller |-> "none",
     header |-> NoToken,        \* the CJ-Access-Token header of line 84
     nSent |-> 0,               \* business requests dispatched (line 91)
     bresp |-> NoBusinessResponse,  \* the answer to the business request
     outcome |-> NoOutcome,     \* how _make_request ended
     saving |-> FALSE,          \* a save was in progress at this load
     before |-> None,           \* what the file held before that save
     saved |-> None,            \* the record that save was writing
     nSaveFailed |-> 0,         \* writes of the file that raised
     endpoint |-> "none",       \* the handler of main.py that made the call
     reply |-> [status |-> 0, kind |-> "none", detail |-> "none"],
                                \* what the handler answered
     input |-> << >>,           \* the arguments of create_order / debug_api
     output |-> << >>]          \* the body or the request they produced

\* what the ".token" file may hold when the process starts
StoredExpiries ==
    {Expiry("Z", w, 0) : w \in 0..Far} \cup
    {Expiry("offset", w, 1) : w \in 1..Far} \cup
    {Expiry("naive", Far, 0), Expiry("bad", 0, 0), Expiry("nonstr", 0, 0)}

StoredRecords ==
    {Obj("AT0", e, rt) : e \in StoredExpiries \cup {NoExpiry},
                         rt \in {"RT0", NoKey}} \cup
    {Obj(NoKey, Expiry("Z", w, 0), "RT0") : w \in {0, Far}}

InitFiles ==
    {NoFile, Truncated, Garbage} \cup
    {json_dump(v) : v \in {None, EmptyDict, Other} \cup StoredRecords}

Init ==
    /\ tokenFile \in InitFiles
    /\ now = 0
    /\ credentials \in BOOLEAN
    /\ access_token = NoToken
    /\ thread = [t \in Threads |-> Idle]

----------------------------------------------------------------------------
(* _ensure_valid_token, client.py lines 26-57 *)

\* line 57: self.access_token = token_data['accessToken'].  The statement is
\* outside the try block: a KeyError or TypeError leaves the method.
Line57(t, r, token_data, source) ==
    IF HasKey(token_data, "accessToken")
    THEN /\ access_token' = token_data.accessToken
         /\ thread' = [thread EXCEPT ![t] =
                [r EXCEPT !.pc = "done", !.token_data = token_data,
                          !.source = source, !.result = "ok",
                          !.token = token_data.accessToken]]
    ELSE /\ UNCHANGED access_token
         /\ thread' = [thread EXCEPT ![t] =
                [r EXCEPT !.pc = "done", !.token_data = token_data,
                          !.source = source, !.result = "error"]]

\* a `raise Exception(...)` that leaves _ensure_valid_token
Raise(t, r) ==
    /\ UNCHANGED access_token
    /\ thread' = [thread EXCEPT ![t] =
            [r EXCEPT !.pc = "done", !.token_data = None, !.result = "error"]]

\* the call of an auth.py function from line `site`
Call(t, r, fn, site) ==
    /\ UNCHANGED access_token
    /\ thread' = [thread EXCEPT ![t] =
            [r EXCEPT !.pc = fn, !.fn = fn, !.site = site,
                      !.fileAtFn = tokenFile, !.resp = NoResponse,
                      !.posted = FALSE, !.data = None, !.ret = None]]

\* lines 33-44 with a handler at line 50 that keeps the stored token
AfterLoad_keep(token_data, n) ==
    IF ~Truthy(token_data) THEN "absent"
    ELSE LET c == CheckExpiry(token_data, n)
         IN  IF c = "expired" /\ HasKey(token_data, "refreshToken")
             THEN "refresh"
             ELSE "valid"

\* lines 33-44: where the method goes once the stored token is loaded
\*   "absent"  line 34    "refresh" line 44    "except" line 53
\*   "valid"   line 57 with the stored token
AfterLoad(token_data, n) ==
    IF ~Truthy(token_data) THEN "absent"
    ELSE LET c == CheckExpiry(token_data, n)
         IN  IF c = "raise" THEN "except"
             ELSE IF c = "valid" THEN "valid"
             ELSE IF HasKey(token_data, "refreshToken") THEN "refresh"
             ELSE "except"      \* KeyError of token_data['refreshToken']

\* lines 45-47 without the fallback of line 47
AfterRefresh_nofallback(ret) == "finish"

\* lines 45-47 with the credentials exchanged after every refresh
AfterRefresh_reauth(ret) == "fallback"

\* lines 45-47: after refresh_token returned
AfterRefresh(ret) == IF Truthy(ret) THEN "finish" ELSE "fallback"

\* lines 35-36, 48-55: after get_access_token returned to line `site`.
\* The raise of line 49 is inside the try block of line 39, so the handler of
\* line 50 catches it and line 53 calls get_access_token once more.
AfterAuth(site, ret) ==
    IF Truthy(ret) THEN "finish"
    ELSE IF site = "fallback" THEN "except"
    ELSE "raise"

CallEnsure(t) ==
    /\ thread[t].pc = "idle"
    /\ thread' = [thread EXCEPT ![t] =
            [Idle EXCEPT !.pc = "ensure", !.op = "ensure",
                         !.fileAtCall = tokenFile]]
    /\ UNCHANGED <<tokenFile, now, credentials, access_token>>

\* lines 30-44
EnsureLoad(t) ==
    /\ thread[t].pc = "ensure"
    /\ LET token_data == get_stored_token(tokenFile)
           go == AfterLoad(token_data, now)
           r == [thread[t] EXCEPT
                    !.loaded = token_data, !.token_data = token_data,
                    !.nowRead = now,
                    !.verdict = IF ~Truthy(token_data) THEN "absent"
                                ELSE CheckExpiry(token_data, now)]
       IN  CASE go = "absent" -> Call(t, r, "get_access_token", "absent")
             [] go = "except" -> Call(t, r, "get_access_token", "except")
             [] go = "refresh" -> Call(t, r, "refresh_token", "refresh")
             [] go = "valid" -> Line57(t, r, token_data, "stored")
    /\ UNCHANGED <<tokenFile, now, credentials>>

----------------------------------------------------------------------------
(* auth.py *)

\* lines 49-56 with the write of lines 54-55 left out
Post_nowrite(t, r, resp) ==
    thread' = [thread EXCEPT ![t] =
        IF IsSuccess(resp)
        THEN [r EXCEPT !.pc = "return", !.posted = TRUE, !.resp = resp,
                       !.data = resp.data, !.ret = resp.data]
        ELSE [r EXCEPT !.pc = "return", !.posted = TRUE, !.resp = resp,
                       !.ret = None]]

\* the POST of line 45 / 91 and the branches of lines 49-68 / 93-111 that do
\* not write: every failure returns None to the caller
Post(t, r, resp) ==
    thread' = [thread EXCEPT ![t] =
        IF IsSuccess(resp)
        THEN [r EXCEPT !.pc = "open", !.posted = TRUE, !.resp = resp,
                       !.data = resp.data]
        ELSE [r EXCEPT !.pc = "return", !.posted = TRUE, !.resp = resp,
                       !.ret = None]]

\* get_access_token, lines 22-51 and 57-68, the vendor answering with one of
\* `answers`
GetAccessTokenFrom(t, answers) ==
    /\ thread[t].pc = "get_access_token"
    /\ IF ~credentials
       THEN \* lines 26-28: no request is sent
            thread' = [thread EXCEPT ![t].pc = "return", ![t].ret = None]
       ELSE \E resp \in answers :
                Post(t, [thread[t] EXCEPT !.nAuth = @ + 1], resp)
    /\ UNCHANGED <<tokenFile, now, credentials, access_token>>

GetAccessToken(t) == GetAccessTokenFrom(t, Responses)

\* refresh_token, lines 80-95 and 101-111, the vendor answering with one of
\* `answers`
RefreshTokenFrom(t, answers) ==
    /\ thread[t].pc = "refresh_token"
    /\ \E resp \in answers :
            Post(t, [thread[t] EXCEPT !.nRefresh = @ + 1], resp)
    /\ UNCHANGED <<tokenFile, now, credentials, access_token>>

RefreshToken(t) == RefreshTokenFrom(t, Responses)

\* line 54 / 98: open(".token", "w") truncates the file
OpenTokenFile(t) ==
    /\ thread[t].pc = "open"
    /\ tokenFile' = Truncated
    /\ thread' = [thread EXCEPT ![t].pc = "dump"]
    /\ UNCHANGED <<now, credentials, access_token>>

\* what the close of the with block leaves in the file.  The text is written
\* at offset 0 of a file this thread truncated at its open: when another
\* operation has written since, the bytes beyond the new text stay, so a
\* shorter text is followed by the tail of the other one.
Written(f, v) ==
    IF f = Truncated THEN {json_dump(v)} ELSE {json_dump(v), Garbage}

\* lines 55-56 / 99-100: json.dump(data.get('data'), token_file), the close of
\* the with block, return data.get('data')
DumpToken(t) ==
    /\ thread[t].pc = "dump"
    /\ tokenFile' \in Written(tokenFile, thread[t].data)
    /\ thread' = [thread EXCEPT ![t].pc = "return", ![t].ret = thread[t].data]
    /\ UNCHANGED <<now, credentials, access_token>>

\* the function returns to its caller, which runs up to its next call
Return(t) ==
    /\ thread[t].pc = "return"
    /\ LET ret == thread[t].ret
           r == IF thread[t].fn = "refresh_token"
                THEN [thread[t] EXCEPT !.refreshRet = ret,
                                       !.refreshResp = thread[t].resp,
                                       !.refreshFailed = ~Truthy(ret)]
                ELSE [thread[t] EXCEPT !.authRet = Append(@, ret)]
       IN  IF thread[t].op # "ensure"
           THEN \* called alone: main.py line 685, auth.py line 150
                /\ UNCHANGED access_token
                /\ thread' = [thread EXCEPT ![t] =
                        [r EXCEPT !.pc = "done",
                                  !.result = IF Truthy(ret) THEN "ok"
                                             ELSE "error"]]
           ELSE IF thread[t].fn = "refresh_token"
           THEN CASE AfterRefresh(ret) = "finish" ->
                        Line57(t, r, ret, "refresh")
                  [] AfterRefresh(ret) = "fallback" ->
                        Call(t, r, "get_access_token", "fallback")
           ELSE CASE AfterAuth(thread[t].site, ret) = "finish" ->
                        Line57(t, r, ret, "authenticate")
                  [] AfterAuth(thread[t].site, ret) = "except" ->
                        Call(t, r, "get_access_token", "except")
                  [] AfterAuth(thread[t].site, ret) = "raise" ->
                        Raise(t, r)
    /\ UNCHANGED <<tokenFile, now, credentials>>

\* main.py line 685 (POST /auth/refresh): get_access_token called alone
CallAuthenticate(t) ==
    /\ thread[t].pc = "idle"
    /\ Call(t, [Idle EXCEPT !.op = "authenticate", !.fileAtCall = tokenFile],
            "get_access_token", "none")
    /\ UNCHANGED <<tokenFile, now, credentials>>

\* auth.py lines 141-150: refresh_token called alone with the stored refresh
\* token
CallRefresh(t) ==
    /\ thread[t].pc = "idle"
    /\ Truthy(get_stored_token(tokenFile))
    /\ Call(t, [Idle EXCEPT !.op = "refresh", !.fileAtCall = tokenFile,
                            !.loaded = get_stored_token(tokenFile)],
            "refresh_token", "none")
    /\ UNCHANGED <<tokenFile, now, credentials>>

----------------------------------------------------------------------------
(* _make_request, client.py lines 59-106 *)

\* the guard entered without being run: the token of the last call reused
CallRequest_cached(t) ==
    /\ thread[t].pc = "idle"
    /\ thread' = [thread EXCEPT ![t] =
            [Idle EXCEPT !.pc = "done", !.op = "ensure",
                         !.caller = "_make_request", !.result = "ok",
                         !.token = access_token,
                         !.fileAtCall = tokenFile]]
    /\ UNCHANGED <<tokenFile, now, credentials, access_token>>

\* line 77: _make_request begins with self._ensure_valid_token()
CallRequest(t) ==
    /\ thread[t].pc = "idle"
    /\ thread' = [thread EXCEPT ![t] =
            [Idle EXCEPT !.pc = "ensure", !.op = "ensure",
                         !.caller = "_make_request",
                         !.fileAtCall = tokenFile]]
    /\ UNCHANGED <<tokenFile, now, credentials, access_token>>

\* lines 80-106: the guard returned; the headers take self.access_token, the
\* request is sent and its answer classified
Dispatch(t) ==
    /\ thread[t].pc = "done"
    /\ thread[t].caller = "_make_request"
    /\ thread[t].result = "ok"
    /\ \E resp \in BusinessResponses :
            thread' = [thread EXCEPT ![t] =
                [thread[t] EXCEPT !.pc = AfterResponse(Classify(resp)),
                                  !.op = "_make_request",
                                  !.header = access_token,
                                  !.nSent = @ + 1,
                                  !.bresp = resp,
                                  !.outcome = Classify(resp)]]
    /\ UNCHANGED <<tokenFile, now, credentials, access_token>>

\* line 77 with the exception of the guard swallowed: the request is sent
\* with the token the client already had
Propagate_swallow(t) ==
    /\ thread[t].pc = "done"
    /\ thread[t].caller = "_make_request"
    /\ thread[t].result = "error"
    /\ \E resp \in BusinessResponses :
            thread' = [thread EXCEPT ![t] =
                [thread[t] EXCEPT !.pc = "end",
                                  !.op = "_make_request",
                                  !.header = access_token,
                                  !.nSent = @ + 1,
                                  !.bresp = resp,
                                  !.outcome = Classify(resp)]]
    /\ UNCHANGED <<tokenFile, now, credentials, access_token>>

\* line 77: the exception of the guard leaves _make_request
Propagate(t) ==
    /\ thread[t].pc = "done"
    /\ thread[t].caller = "_make_request"
    /\ thread[t].result = "error"
    /\ thread' = [thread EXCEPT ![t].pc = "end",
                                ![t].op = "_make_request",
                                ![t].outcome =
                                    Outcome("auth_error", 0, 0, "", "", NoBody)]
    /\ UNCHANGED <<tokenFile, now, credentials, access_token>>

\* the operation is over; its caller goes on
Finished(t) ==
    /\ \/ thread[t].pc = "done" /\ thread[t].caller = "none"
       \/ thread[t].pc = "end"
    /\ thread' = [thread EXCEPT ![t] = Idle]
    /\ UNCHANGED <<tokenFile, now, credentials, access_token>>

\* time passes
Tick ==
    /\ now < MaxNow
    /\ now' = now + 1
    /\ UNCHANGED <<tokenFile, credentials, access_token, thread>>

----------------------------------------------------------------------------
(* One thread: the operations run one after the other *)

Step(t) ==
    \/ CallEnsure(t)
    \/ CallAuthenticate(t)
    \/ CallRefresh(t)
    \/ EnsureLoad(t)
    \/ GetAccessToken(t)
    \/ RefreshToken(t)
    \/ OpenTokenFile(t)
    \/ DumpToken(t)
    \/ Return(t)
    \/ Finished(t)
    \/ CallRequest(t)
    \/ Dispatch(t)
    \/ Propagate(t)

Next == Step(MainThread) \/ Tick

Spec == Init /\ [][Next]_vars

----------------------------------------------------------------------------
(* Vocabulary of the properties *)

\* the operation _ensure_valid_token of thread t has ended
EnsureDone(t) == thread[t].op = "ensure" /\ thread[t].pc = "done"

\* the instant an offset-carrying expiry denotes
Instant(e) == e.wall - e.off
HasInstant(v) ==
    /\ v.kind = "object"
    /\ v.accessTokenExpiryDate.fmt \in {"Z", "offset"}

\* the three failures named by the vendor contract
TransportFailed(resp) == resp.raises
HttpFailed(resp) == ~resp.raises /\ resp.status_code # 200
Rejected(resp) ==
    ~resp.raises /\ resp.status_code = 200 /\ resp.json_ok /\ resp.code # 200
Accepted(resp) ==
    ~resp.raises /\ resp.status_code = 200 /\ resp.json_ok /\ resp.code = 200

\* what a load of the file reports
StoreAbsent(f) == ~Truthy(get_stored_token(f))

----------------------------------------------------------------------------
(* C1 *)

\* C1: when the stored record's expiry instant is at or before the `now` the
\* guard read (equal included), the guard never ends on the stored token:
\* if it ends with a token, a refresh or credential POST was sent and the
\* token is the one carried by the answer to the last call.
C1_ExpiredNeverReturnsStored ==
    \A t \in Threads :
        ( /\ EnsureDone(t)
          /\ Truthy(thread[t].loaded)
          /\ HasInstant(thread[t].loaded)
          /\ Instant(thread[t].loaded.accessTokenExpiryDate)
                <= thread[t].nowRead )
        => /\ thread[t].source # "stored"
           /\ thread[t].result = "ok" =>
                /\ thread[t].nRefresh + thread[t].nAuth >= 1
                /\ thread[t].source \in {"refresh", "authenticate"}
                /\ Accepted(thread[t].resp)
                /\ thread[t].token = thread[t].resp.data.accessToken
                /\ access_token = thread[t].token

\* a token expiring exactly now was loaded and the guard ended with the
\* refreshed token
C1_Witness ==
    \E t \in Threads :
        /\ EnsureDone(t)
        /\ HasInstant(thread[t].loaded)
        /\ Instant(thread[t].loaded.accessTokenExpiryDate) = thread[t].nowRead
        /\ thread[t].nowRead > 0
        /\ thread[t].result = "ok"
        /\ thread[t].source = "refresh"
        /\ thread[t].token # thread[t].loaded.accessToken

----------------------------------------------------------------------------
(* C2 *)

\* C2: when the stored TokenRecord's expiry instant is strictly after the
\* `now` the guard read, the guard ends with exactly the stored access token,
\* has sent no POST to either authentication endpoint and the file is what it
\* was when the guard began.
C2_ValidReturnsStoredNoCalls ==
    \A t \in Threads :
        ( /\ thread[t].op = "ensure"
          /\ thread[t].pc \notin {"idle", "ensure"}
          /\ IsTokenRecord(thread[t].loaded)
          /\ HasInstant(thread[t].loaded)
          /\ Instant(thread[t].loaded.accessTokenExpiryDate)
                > thread[t].nowRead )
        => /\ thread[t].pc = "done"
           /\ thread[t].result = "ok"
           /\ thread[t].token = thread[t].loaded.accessToken
           /\ access_token = thread[t].loaded.accessToken
           /\ thread[t].nRefresh = 0
           /\ thread[t].nAuth = 0
           /\ thread[t].authRet = << >>
           /\ tokenFile = thread[t].fileAtCall

\* a stored record carrying an offset, whose instant is one unit after the
\* clock, is served from the file
C2_Witness ==
    \E t \in Threads :
        /\ EnsureDone(t)
        /\ IsTokenRecord(thread[t].loaded)
        /\ thread[t].loaded.accessTokenExpiryDate.fmt = "offset"
        /\ Instant(thread[t].loaded.accessTokenExpiryDate)
                = thread[t].nowRead + 1
        /\ thread[t].nowRead > 0
        /\ thread[t].result = "ok"
        /\ thread[t].token = "AT0"

----------------------------------------------------------------------------
(* C3 *)

\* C3: the guard found no stored token (no file), the credentials are set and
\* the vendor accepted the credential exchange with a complete record: the
\* guard ends with that record's accessToken and a load of the file yields
\* exactly that record.
C3_EmptyStoreAuthenticates ==
    \A t \in Threads :
        ( /\ EnsureDone(t)
          /\ thread[t].fileAtCall = NoFile
          /\ credentials
          /\ thread[t].nAuth >= 1
          /\ Accepted(thread[t].resp)
          /\ IsTokenRecord(thread[t].resp.data) )
        => /\ thread[t].result = "ok"
           /\ thread[t].token = thread[t].resp.data.accessToken
           /\ access_token = thread[t].resp.data.accessToken
           /\ thread[t].nAuth = 1
           /\ thread[t].nRefresh = 0
           /\ tokenFile.state = "json"
           /\ get_stored_token(tokenFile) = thread[t].resp.data

C3_Witness ==
    \E t \in Threads :
        /\ EnsureDone(t)
        /\ thread[t].fileAtCall = NoFile
        /\ thread[t].verdict = "absent"
        /\ thread[t].resp = Success(Obj("AT1", Expiry("Z", Far, 0), "RT1"))
        /\ thread[t].token = "AT1"
        /\ tokenFile = json_dump(Obj("AT1", Expiry("Z", Far, 0), "RT1"))

----------------------------------------------------------------------------
(* C4 *)

\* C4: the stored token was expired and refresh_token failed (transport
\* failure, HTTP status other than 200, business code other than 200, or any
\* other None return): the guard calls get_access_token, and when that call
\* returns a complete record the guard ends with that record's accessToken.
C4_RefreshFailureFallsBack ==
    \A t \in Threads :
        /\ ( /\ thread[t].op = "ensure"
             /\ thread[t].nRefresh = 1
             /\ thread[t].refreshResp # NoResponse
             /\ \/ TransportFailed(thread[t].refreshResp)
                \/ HttpFailed(thread[t].refreshResp)
                \/ Rejected(thread[t].refreshResp) )
           => /\ thread[t].refreshFailed
              /\ thread[t].verdict = "expired"
        /\ ( /\ EnsureDone(t)
             /\ thread[t].refreshFailed )
           => /\ Len(thread[t].authRet) >= 1
              /\ credentials => thread[t].nAuth >= 1
              /\ IsTokenRecord(thread[t].authRet[1]) =>
                    /\ thread[t].result = "ok"
                    /\ thread[t].source = "authenticate"
                    /\ thread[t].token = thread[t].authRet[1].accessToken
                    /\ access_token = thread[t].token

\* an expired token, a rejected refresh token, then a successful credential
\* exchange
C4_Witness ==
    \E t \in Threads :
        /\ EnsureDone(t)
        /\ thread[t].verdict = "expired"
        /\ Rejected(thread[t].refreshResp)
        /\ thread[t].nAuth = 1
        /\ IsTokenRecord(thread[t].authRet[1])
        /\ thread[t].result = "ok"
        /\ thread[t].token = "AT2"

----------------------------------------------------------------------------
(* C5 *)

\* C5: during one run of the guard at most one POST goes to the refresh
\* endpoint and at most one POST goes to the credential-exchange endpoint.
C5_AtMostOnePostEach ==
    \A t \in Threads :
        thread[t].op = "ensure" =>
            /\ thread[t].nRefresh <= 1
            /\ thread[t].nAuth <= 1

----------------------------------------------------------------------------
(* C6 *)

\* C6: when the guard had to authenticate (nothing stored, or the refresh
\* failed) and get_access_token failed, the guard ends with an error and
\* assigns no token.
C6_AuthFailureEndsWithError ==
    \A t \in Threads :
        ( /\ EnsureDone(t)
          /\ thread[t].verdict = "absent" \/ thread[t].refreshFailed
          /\ Len(thread[t].authRet) >= 1
          /\ ~Truthy(thread[t].authRet[1]) )
        => /\ thread[t].result = "error"
           /\ thread[t].token = NoToken

----------------------------------------------------------------------------
(* C7 *)

\* C7: once get_access_token or refresh_token got a transport failure, an
\* HTTP status other than 200 or a business code other than 200, the function
\* never reaches its write and returns None, and the file is what it was
\* when the function began.
C7_FailedCallLeavesStore ==
    \A t \in Threads :
        ( /\ thread[t].pc \in {"open", "dump", "return", "done"}
          /\ thread[t].posted
          /\ \/ TransportFailed(thread[t].resp)
             \/ HttpFailed(thread[t].resp)
             \/ Rejected(thread[t].resp) )
        => /\ thread[t].pc \in {"return", "done"}
           /\ thread[t].ret = None
           /\ tokenFile = thread[t].fileAtFn

\* a rejected credential exchange returned while the file held a record
C7_Witness ==
    \E t \in Threads :
        /\ thread[t].pc = "return"
        /\ thread[t].fn = "get_access_token"
        /\ thread[t].posted
        /\ Rejected(thread[t].resp)
        /\ thread[t].fileAtFn.state = "json"
        /\ IsTokenRecord(get_stored_token(thread[t].fileAtFn))

----------------------------------------------------------------------------
(* C8 *)

\* C8: a success code with a payload that is not a complete record makes the
\* function fail (it returns nothing usable) and leaves the file as it was.
C8_MalformedPayloadRejected ==
    \A t \in Threads :
        ( /\ thread[t].pc \in {"return", "done"}
          /\ thread[t].posted
          /\ Accepted(thread[t].resp)
          /\ ~IsTokenRecord(thread[t].resp.data) )
        => /\ ~Truthy(thread[t].ret)
           /\ tokenFile = thread[t].fileAtFn

----------------------------------------------------------------------------
(* C9 *)

\* a load reports nothing, or the file holds a record with the three fields
StoreWellFormed(f) ==
    \/ StoreAbsent(f)
    \/ f.state = "json" /\ IsTokenRecord(get_stored_token(f))

\* C9: an operation that began on a well-formed store (absent, or one record
\* with accessToken, accessTokenExpiryDate and refreshToken) never leaves
\* anything else in it.
C9_StoreAbsentOrComplete ==
    \A t \in Threads :
        ( /\ thread[t].pc # "idle"
          /\ StoreWellFormed(thread[t].fileAtCall) )
        => StoreWellFormed(tokenFile)

----------------------------------------------------------------------------
(* C10 *)

\* C10: a stored value whose accessTokenExpiryDate is missing, is not a
\* string or is not ISO-8601 never ends the guard on the stored token: the
\* guard calls get_access_token, and a token it ends with is the one of the
\* accepted answer.
C10_MalformedExpiryTreatedExpired ==
    \A t \in Threads :
        ( /\ EnsureDone(t)
          /\ Truthy(thread[t].loaded)
          /\ \/ thread[t].loaded.kind # "object"
             \/ thread[t].loaded.accessTokenExpiryDate.fmt
                    \in {"nokey", "nonstr", "bad"} )
        => /\ thread[t].source # "stored"
           /\ Len(thread[t].authRet) + thread[t].nRefresh >= 1
           /\ credentials => thread[t].nAuth + thread[t].nRefresh >= 1
           /\ thread[t].result = "ok" =>
                /\ thread[t].source = "authenticate"
                /\ Accepted(thread[t].resp)
                /\ thread[t].token = thread[t].resp.data.accessToken

\* a stored record without accessTokenExpiryDate led to a credential exchange
C10_Witness ==
    \E t \in Threads :
        /\ EnsureDone(t)
        /\ thread[t].loaded = Obj("AT0", NoExpiry, "RT0")
        /\ thread[t].nAuth = 1
        /\ thread[t].result = "ok"
        /\ thread[t].token = "AT1"

----------------------------------------------------------------------------
(* C11 *)

\* C11: a stored TokenRecord whose expiry carries no offset and, read as UTC,
\* lies strictly after the `now` the guard read is served from the file: the
\* guard ends with the stored access token and sends no POST.
C11_NaiveExpiryReadAsUtc ==
    \A t \in Threads :
        ( /\ EnsureDone(t)
          /\ IsTokenRecord(thread[t].loaded)
          /\ thread[t].loaded.accessTokenExpiryDate.fmt = "naive"
          /\ thread[t].loaded.accessTokenExpiryDate.wall > thread[t].nowRead )
        => /\ thread[t].result = "ok"
           /\ thread[t].token = thread[t].loaded.accessToken
           /\ thread[t].nRefresh = 0
           /\ thread[t].nAuth = 0

----------------------------------------------------------------------------
(* C12 *)

\* C12: when get_access_token or refresh_token returns a record, the file
\* already holds the text of exactly that record: nothing of the file the
\* function found is left.
C12_WrittenBeforeReturned ==
    \A t \in Threads :
        ( /\ thread[t].pc = "return"
          /\ Truthy(thread[t].ret) )
        => /\ thread[t].posted
           /\ thread[t].ret = thread[t].resp.data
           /\ tokenFile = json_dump(thread[t].ret)
           /\ get_stored_token(tokenFile) = thread[t].ret

\* refresh_token returns AT2 while the file it found held the record of AT0
C12_Witness ==
    \E t \in Threads :
        /\ thread[t].pc = "return"
        /\ thread[t].fn = "refresh_token"
        /\ IsTokenRecord(get_stored_token(thread[t].fileAtFn))
        /\ get_stored_token(thread[t].fileAtFn).accessToken = "AT0"
        /\ IsTokenRecord(thread[t].ret)
        /\ thread[t].ret.accessToken = "AT2"
        /\ get_stored_token(tokenFile).refreshToken = "RT1"

----------------------------------------------------------------------------
(* C13 *)

\* C13: the stored token was expired and the vendor accepted the refresh with
\* a complete record: the guard ends with that record's accessToken and
\* get_access_token is never called.
C13_RefreshSuccessNoAuthenticate ==
    \A t \in Threads :
        ( /\ EnsureDone(t)
          /\ thread[t].nRefresh = 1
          /\ Accepted(thread[t].refreshResp)
          /\ IsTokenRecord(thread[t].refreshResp.data) )
        => /\ thread[t].verdict = "expired"
           /\ thread[t].result = "ok"
           /\ thread[t].source = "refresh"
           /\ thread[t].token = thread[t].refreshResp.data.accessToken
           /\ access_token = thread[t].token
           /\ thread[t].nAuth = 0
           /\ thread[t].authRet = << >>

C13_Witness ==
    \E t \in Threads :
        /\ EnsureDone(t)
        /\ thread[t].verdict = "expired"
        /\ thread[t].loaded.accessToken = "AT0"
        /\ thread[t].refreshResp =
                Success(Obj("AT1", Expiry("Z", Far, 0), "RT1"))
        /\ thread[t].token = "AT1"
        /\ thread[t].nAuth = 0

----------------------------------------------------------------------------
(* C14 *)

\* C14: on a file json.load cannot read (garbage, or left empty) the load
\* reports nothing stored and the guard goes on to get_access_token; when the
\* credentials are set and the vendor accepts with a complete record, the
\* guard ends with that record's accessToken and the file holds the record.
C14_CorruptStoreSelfHeals ==
    \A t \in Threads :
        ( /\ thread[t].op = "ensure"
          /\ thread[t].pc \notin {"idle", "ensure"}
          /\ thread[t].fileAtCall.state \in {"garbage", "empty"} )
        => /\ thread[t].loaded = None
           /\ thread[t].verdict = "absent"
           /\ thread[t].nRefresh = 0
           /\ ( /\ thread[t].pc = "done"
                /\ credentials
                /\ Accepted(thread[t].resp)
                /\ IsTokenRecord(thread[t].resp.data) )
              => /\ thread[t].result = "ok"
                 /\ thread[t].nAuth = 1
                 /\ thread[t].token = thread[t].resp.data.accessToken
                 /\ get_stored_token(tokenFile) = thread[t].resp.data
           /\ thread[t].pc = "done" => Len(thread[t].authRet) = 1

C14_Witness ==
    \E t \in Threads :
        /\ EnsureDone(t)
        /\ thread[t].fileAtCall = Garbage
        /\ thread[t].result = "ok"
        /\ thread[t].token = "AT1"
        /\ IsTokenRecord(get_stored_token(tokenFile))

----------------------------------------------------------------------------
(* Save then load: lines 54-55 of auth.py followed by get_stored_token *)

\* the records saved: every combination of tokens and stored expiries
RoundTripRecords ==
    {Obj(at, e, rt) : at \in {"AT0", "AT1"}, e \in StoredExpiries,
                      rt \in {"RT0", "RT1"}}

\* the thread stands at line 54 with the record to save in data.get('data')
InitRoundTrip ==
    /\ tokenFile \in InitFiles
    /\ now = 0
    /\ credentials = TRUE
    /\ access_token = NoToken
    /\ \E record \in RoundTripRecords :
            thread = [t \in Threads |->
                IF t = MainThread
                THEN [Idle EXCEPT !.pc = "open", !.op = "save",
                                  !.fn = "get_access_token",
                                  !.data = record, !.fileAtCall = tokenFile,
                                  !.fileAtFn = tokenFile]
                ELSE Idle]

\* get_stored_token() called once the save returned
LoadToken(t) ==
    /\ thread[t].op = "save"
    /\ thread[t].pc = "return"
    /\ thread' = [thread EXCEPT ![t].pc = "done",
                                ![t].loaded = get_stored_token(tokenFile)]
    /\ UNCHANGED <<tokenFile, now, credentials, access_token>>

NextRoundTrip ==
    \/ OpenTokenFile(MainThread)
    \/ DumpToken(MainThread)
    \/ LoadToken(MainThread)

SpecRoundTrip == InitRoundTrip /\ [][NextRoundTrip]_vars

----------------------------------------------------------------------------
(* C15 *)

\* C15: a TokenRecord saved and then loaded, with no save in between, comes
\* back equal in accessToken, accessTokenExpiryDate and refreshToken.
C15_SaveLoadRoundTrip ==
    \A t \in Threads :
        ( /\ thread[t].op = "save"
          /\ thread[t].pc = "done" )
        => /\ thread[t].loaded.kind = "object"
           /\ thread[t].loaded.accessToken = thread[t].data.accessToken
           /\ thread[t].loaded.accessTokenExpiryDate
                = thread[t].data.accessTokenExpiryDate
           /\ thread[t].loaded.refreshToken = thread[t].data.refreshToken

\* a record with an offset expiry came back over a file that held another
C15_Witness ==
    \E t \in Threads :
        /\ thread[t].op = "save"
        /\ thread[t].pc = "done"
        /\ thread[t].fileAtCall = json_dump(Obj("AT0", Expiry("Z", 0, 0), "RT0"))
        /\ thread[t].data = Obj("AT1", Expiry("offset", Far, 1), "RT1")
        /\ thread[t].loaded = thread[t].data

----------------------------------------------------------------------------
(* C16 *)

\* the business request of thread t has been sent
Sent(t) == thread[t].nSent >= 1

\* C16: every business request _make_request has sent was sent after a run of
\* _ensure_valid_token of the same call that ended with a token, and its
\* CJ-Access-Token header is that token: the stored access token when the
\* guard found its expiry strictly after the clock it read, otherwise the
\* accessToken the vendor returned to the refresh or credential POST of this
\* run; never a stored token the guard found expired.
C16_RequestCarriesResolvedToken ==
    \A t \in Threads :
        Sent(t) =>
            /\ thread[t].caller = "_make_request"
            /\ thread[t].result = "ok"
            /\ thread[t].header = thread[t].token
            /\ thread[t].source \in {"stored", "refresh", "authenticate"}
            /\ thread[t].source = "stored" =>
                    /\ thread[t].verdict = "valid"
                    /\ HasInstant(thread[t].loaded)
                    /\ Instant(thread[t].loaded.accessTokenExpiryDate)
                            > thread[t].nowRead
                    /\ thread[t].header = thread[t].loaded.accessToken
                    /\ thread[t].nRefresh + thread[t].nAuth = 0
            /\ thread[t].source # "stored" =>
                    /\ thread[t].nRefresh + thread[t].nAuth >= 1
                    /\ Accepted(thread[t].resp)
                    /\ thread[t].header = thread[t].resp.data.accessToken
            /\ thread[t].verdict # "valid" => thread[t].source # "stored"

\* a request was sent on a call whose guard found the stored token expired
\* and refreshed it: the header is the refreshed token
C16_Witness ==
    \E t \in Threads :
        /\ Sent(t)
        /\ thread[t].verdict = "expired"
        /\ thread[t].loaded.accessToken = "AT0"
        /\ thread[t].source = "refresh"
        /\ thread[t].header = "AT1"

----------------------------------------------------------------------------
(* C17 *)

\* the vendor answered the business request of thread t with status 200 and
\* a JSON envelope
Answered200(t) ==
    /\ Sent(t)
    /\ ~thread[t].bresp.raises
    /\ thread[t].bresp.status_code = 200
    /\ thread[t].bresp.json_ok

\* C17: a business request answered with status 200 and an envelope whose
\* result is false, whatever its code, makes _make_request raise the API
\* error carrying the envelope's message; the body is not returned.
C17_ResultFalseIsApiError ==
    \A t \in Threads :
        ( /\ Answered200(t)
          /\ thread[t].bresp.body.result = "false" )
        => /\ thread[t].outcome.kind = "api_error"
           /\ thread[t].outcome.message = thread[t].bresp.body.message
           /\ thread[t].outcome.body = NoBody

----------------------------------------------------------------------------
(* C18 *)

\* C18: a business request answered with a status other than 200 makes
\* _make_request raise the HTTP error carrying that status and the text of
\* the answer; nothing parsed is returned, whatever the answer holds.
C18_Non200IsHttpError ==
    \A t \in Threads :
        ( /\ Sent(t)
          /\ ~thread[t].bresp.raises
          /\ thread[t].bresp.status_code # 200 )
        => /\ thread[t].pc = "end"
           /\ thread[t].outcome.kind = "http_error"
           /\ thread[t].outcome.status = thread[t].bresp.status_code
           /\ thread[t].outcome.text = thread[t].bresp.text
           /\ thread[t].outcome.body = NoBody

\* an error status whose text is a JSON envelope ended as the HTTP error
C18_Witness ==
    \E t \in Threads :
        /\ Sent(t)
        /\ thread[t].bresp.status_code = StatusError
        /\ thread[t].bresp.json_ok
        /\ thread[t].outcome.kind = "http_error"
        /\ thread[t].outcome.text = "json"

----------------------------------------------------------------------------
(* C19 *)

\* C19: a business request answered with status 200 and an envelope whose
\* result is true makes _make_request return that envelope, member for
\* member, whatever its code.
C19_ResultTrueReturnsBody ==
    \A t \in Threads :
        ( /\ Answered200(t)
          /\ thread[t].bresp.body.result = "true" )
        => /\ thread[t].pc = "end"
           /\ thread[t].outcome.kind = "returned"
           /\ thread[t].outcome.body = thread[t].bresp.body

\* an envelope with result true was returned: one with code 200, and one
\* whose code is not 200
C19_Witness ==
    \E t \in Threads :
        /\ Answered200(t)
        /\ thread[t].bresp.body.result = "true"
        /\ thread[t].bresp.body.code = CodeRejected
        /\ thread[t].outcome.kind = "returned"
        /\ thread[t].outcome.body =
                Body(CodeRejected, "true", "success", "payload")

----------------------------------------------------------------------------
(* C20 *)

\* C20: one call of _make_request sends at most one business request, and
\* once it is sent the call only ends: whatever the answer, an HTTP error or
\* an API error included, the thread takes no further step of the call, no
\* POST to an authentication endpoint follows, and the token file and the
\* client's token stay as they are.
C20_NoRetryAfterAnswer ==
    [][\A t \in Threads :
          /\ thread'[t].nSent <= 1
          /\ Sent(t) =>
                /\ thread[t].pc = "end"
                /\ thread'[t] = thread[t] \/ thread'[t] = Idle
                /\ tokenFile' = tokenFile
                /\ access_token' = access_token]_vars

\* a call ended on the API error of an expired-token rejection after one
\* request, and one on an HTTP error
C20_Witness ==
    \E t \in Threads :
        /\ thread[t].pc = "end"
        /\ thread[t].nSent = 1
        /\ thread[t].outcome.kind = "api_error"
        /\ thread[t].outcome.code = CodeRejected
        /\ thread[t].outcome.message = "token expired"

----------------------------------------------------------------------------
(* Loads during a save: get_stored_token against lines 54-55 / 98-99 *)

\* the threads standing between open(".token", "w") and the close of the with
\* block while thread t loads
Savers(t) == {u \in Threads \ {t} : thread[u].pc = "dump"}

\* main.py line 658 (GET /auth/status): get_stored_token() called alone
CallStatus(t) ==
    /\ thread[t].pc = "idle"
    /\ thread' = [thread EXCEPT ![t] =
            [Idle EXCEPT
                !.pc = "done", !.op = "status",
                !.fileAtCall = tokenFile,
                !.loaded = get_stored_token(tokenFile),
                !.saving = Savers(t) # {},
                !.before = IF Savers(t) = {} THEN None
                           ELSE LET u == CHOOSE u \in Savers(t) : TRUE
                                IN  get_stored_token(thread[u].fileAtFn),
                !.saved = IF Savers(t) = {} THEN None
                          ELSE LET u == CHOOSE u \in Savers(t) : TRUE
                               IN  thread[u].data,
                !.result = "ok"]]
    /\ UNCHANGED <<tokenFile, now, credentials, access_token>>

\* the complete records the file starts with: one expired, one still valid
SavedRecords ==
    {Obj("AT0", Expiry("Z", w, 0), "RT0") : w \in {0, Far}}

InitLoads ==
    /\ tokenFile \in {json_dump(v) : v \in SavedRecords}
    /\ now = 0
    /\ credentials = TRUE
    /\ access_token = NoToken
    /\ thread = [t \in Threads |-> Idle]

\* one thread runs the operations; the others load the file meanwhile
NextLoads ==
    \/ Step(MainThread)
    \/ \E t \in Threads \ {MainThread} : CallStatus(t) \/ Finished(t)

SpecLoads == InitLoads /\ [][NextLoads]_vars

----------------------------------------------------------------------------
(* C21 *)

\* C21: a load made while another operation stands between the open and the
\* close of its write, over a file that held a complete record before that
\* write, returns that previous record or the record being written; never
\* nothing.
C21_LoadDuringSaveSeesRecord ==
    \A t \in Threads :
        ( /\ thread[t].op = "status"
          /\ thread[t].pc = "done"
          /\ thread[t].saving
          /\ IsTokenRecord(thread[t].before) )
        => /\ Truthy(thread[t].loaded)
           /\ thread[t].loaded \in {thread[t].before, thread[t].saved}

----------------------------------------------------------------------------
(* Several requests in flight on the shared client: main.py line 131 *)

InitConcurrent ==
    /\ tokenFile \in {json_dump(v) : v \in SavedRecords}
    /\ now = 0
    /\ credentials = TRUE
    /\ access_token = NoToken
    /\ thread = [t \in Threads |-> Idle]

\* the vendor accepts every refresh and every credential exchange, with a
\* complete record
AcceptingResponses == {Success(d) : d \in VendorRecords}

GetAccessTokenAccepted(t) == GetAccessTokenFrom(t, AcceptingResponses)
RefreshTokenAccepted(t) == RefreshTokenFrom(t, AcceptingResponses)

\* every thread runs one call of _make_request, interleaved at each statement
\* that reads or writes the file, the network or self.access_token
StepConcurrent(t) ==
    \/ CallRequest(t)
    \/ EnsureLoad(t)
    \/ GetAccessTokenAccepted(t)
    \/ RefreshTokenAccepted(t)
    \/ OpenTokenFile(t)
    \/ DumpToken(t)
    \/ Return(t)
    \/ Dispatch(t)

NextConcurrent == \E t \in Threads : StepConcurrent(t)

SpecConcurrent == InitConcurrent /\ [][NextConcurrent]_vars

----------------------------------------------------------------------------
(* C22 *)

\* the guard of thread t has returned or raised
GuardEnded(t) == thread[t].pc \in {"done", "end"}

\* thread u's guard ended on the stored token, found valid
ServedStored(u) ==
    /\ GuardEnded(u)
    /\ thread[u].source = "stored"
    /\ thread[u].verdict = "valid"
    /\ Instant(thread[u].loaded.accessTokenExpiryDate) > thread[u].nowRead

\* C22: with several calls in flight on the shared client and a vendor that
\* accepts every refresh and every credential exchange, in every interleaving
\* each guard ends with a token (the stored one it found valid, or the one
\* the vendor just issued to it), each business request carries a token a
\* guard resolved that way, and once every call has ended the file holds one
\* complete record: the initial one or one the vendor issued.
C22_ConcurrentGuardsSafe ==
    /\ \A t \in Threads :
          GuardEnded(t) =>
              /\ thread[t].result = "ok"
              /\ \/ ServedStored(t) /\ thread[t].token = thread[t].loaded.accessToken
                 \/ /\ thread[t].source \in {"refresh", "authenticate"}
                    /\ thread[t].token = thread[t].resp.data.accessToken
    /\ \A t \in Threads :
          Sent(t) =>
              \E u \in Threads :
                  /\ GuardEnded(u)
                  /\ thread[u].result = "ok"
                  /\ thread[t].header = thread[u].token
    /\ (\A t \in Threads : thread[t].pc = "end") =>
          /\ tokenFile.state = "json"
          /\ get_stored_token(tokenFile) \in VendorRecords \cup SavedRecords

----------------------------------------------------------------------------
(* A write of the file that fails: auth.py lines 54-55 / 98-99 inside the try
   of line 43 / 90, handled at lines 66-68 / 109-111 *)

\* open(".token", "w") raises (no permission, read-only directory): the file
\* is untouched, the handler prints and the function returns None
OpenFails(t) ==
    /\ thread[t].pc = "open"
    /\ thread' = [thread EXCEPT ![t].pc = "return", ![t].ret = None,
                                ![t].nSaveFailed = @ + 1]
    /\ UNCHANGED <<tokenFile, now, credentials, access_token>>

\* json.dump or the close of the with block raises (disk full): the file
\* stays empty or holds a part of the text; the function returns None
DumpFails(t) ==
    /\ thread[t].pc = "dump"
    /\ tokenFile' \in {Truncated, Garbage}
    /\ thread' = [thread EXCEPT ![t].pc = "return", ![t].ret = None,
                                ![t].nSaveFailed = @ + 1]
    /\ UNCHANGED <<now, credentials, access_token>>

InitStorage ==
    /\ tokenFile \in {NoFile} \cup {json_dump(v) : v \in SavedRecords}
    /\ now = 0
    /\ credentials = TRUE
    /\ access_token = NoToken
    /\ thread = [t \in Threads |-> Idle]

NextStorage ==
    \/ Step(MainThread)
    \/ OpenFails(MainThread)
    \/ DumpFails(MainThread)

SpecStorage == InitStorage /\ [][NextStorage]_vars

----------------------------------------------------------------------------
(* C23 *)

\* C23: when a write of the file fails during get_access_token or
\* refresh_token, the function does not return the vendor's record (a record
\* it returns is the one the file holds), and the guard that called it ends
\* with an error.
C23_SaveFailureReachesCaller ==
    \A t \in Threads :
        /\ ( /\ thread[t].pc = "return"
             /\ Truthy(thread[t].ret) )
           => tokenFile = json_dump(thread[t].ret)
        /\ ( /\ GuardEnded(t)
             /\ thread[t].op \in {"ensure", "_make_request"}
             /\ thread[t].nSaveFailed >= 1 )
           => thread[t].result = "error"

----------------------------------------------------------------------------
(* C24 *)

\* the store holds a complete record whose expiry is a timestamp after n
\* (one without offset read as UTC)
HoldsUsableRecord(f, n) ==
    LET v == get_stored_token(f)
    IN  /\ IsTokenRecord(v)
        /\ v.accessTokenExpiryDate.fmt \in {"Z", "offset", "naive"}
        /\ Instant(v.accessTokenExpiryDate) > n

\* thread t has sent the credentials to getAccessToken in the call of
\* get_access_token it is executing
SentCredentials(t) ==
    /\ thread[t].fn = "get_access_token"
    /\ thread[t].posted
    /\ thread[t].pc \in {"open", "dump", "return"}

\* C24: the credentials are POSTed to getAccessToken only when the file held
\* no usable record when get_access_token was called, or when a refresh of
\* this operation has just failed; never while the file holds a complete,
\* unexpired record.
C24_CredentialsOnlyWhenNeeded ==
    \A t \in Threads :
        SentCredentials(t) =>
            \/ ~HoldsUsableRecord(thread[t].fileAtFn, now)
            \/ thread[t].refreshFailed

----------------------------------------------------------------------------
(* The handlers of main.py that test the envelope's result *)

\* onFalse: the status of the HTTPException raised inside the try block when
\*          `not X.get("result")`
\* reraise: the handler has `except HTTPException: raise` before its
\*          `except Exception`
Handler(name, onFalse, reraise) ==
    [name |-> name, onFalse |-> onFalse, reraise |-> reraise]

Handlers ==
    { Handler("get_account_balance", 400, TRUE),    \* lines 1197-1221
      Handler("get_product", 404, FALSE),           \* lines 819-832
      Handler("get_orders", 400, FALSE),            \* lines 1051-1064
      Handler("get_order_details", 404, FALSE),     \* lines 1067-1080
      Handler("delete_order", 400, FALSE) }         \* lines 1083-1096

Answer(status, kind, detail) ==
    [status |-> status, kind |-> kind, detail |-> detail]

\* what handler h answers when the client call ended with `outcome`.  An
\* exception of the client reaches `except Exception`, which raises
\* HTTPException(500).  The HTTPException raised inside the try block is an
\* Exception too: without `except HTTPException: raise` the same clause
\* catches it and raises HTTPException(500) in its place.
Reply(h, outcome) ==
    IF outcome.kind # "returned"
    THEN Answer(500, "HTTPException", outcome.kind)
    ELSE IF outcome.body.result = "true"
    THEN Answer(200, "response", "body")
    ELSE IF h.reraise
    THEN Answer(h.onFalse, "HTTPException", "result false")
    ELSE Answer(500, "HTTPException", "result false")

\* the handler that called the client answers
Respond(t) ==
    /\ thread[t].pc = "end"
    /\ thread[t].caller = "_make_request"
    /\ \E h \in Handlers :
            thread' = [thread EXCEPT ![t].pc = "replied",
                                     ![t].endpoint = h.name,
                                     ![t].reply = Reply(h, thread[t].outcome)]
    /\ UNCHANGED <<tokenFile, now, credentials, access_token>>

\* the answer is sent; the next request is served
Replied(t) ==
    /\ thread[t].pc = "replied"
    /\ thread' = [thread EXCEPT ![t] = Idle]
    /\ UNCHANGED <<tokenFile, now, credentials, access_token>>

InitEndpoints ==
    /\ tokenFile \in {NoFile} \cup {json_dump(v) : v \in SavedRecords}
    /\ now = 0
    /\ credentials \in BOOLEAN
    /\ access_token = NoToken
    /\ thread = [t \in Threads |-> Idle]

NextEndpoints ==
    \/ Step(MainThread)
    \/ Respond(MainThread)
    \/ Replied(MainThread)

SpecEndpoints == InitEndpoints /\ [][NextEndpoints]_vars

\* the answers of the vendor that are a business error: status 200 and an
\* envelope whose result is false
BusinessErrors ==
    {r \in BusinessResponses :
        /\ ~r.raises
        /\ r.status_code = 200
        /\ r.json_ok
        /\ r.body.result = "false"}

----------------------------------------------------------------------------
(* C25 *)

\* C25: the answer a handler gives when the guard could not obtain a token
\* differs, in kind or in status, from every answer the same handler gives
\* to a business error of the vendor.
C25_AuthFailureDistinct ==
    \A t \in Threads :
        ( /\ thread[t].pc = "replied"
          /\ thread[t].outcome.kind = "auth_error" )
        => \A h \in Handlers, r \in BusinessErrors :
              h.name = thread[t].endpoint =>
                  \/ Reply(h, Classify(r)).kind # thread[t].reply.kind
                  \/ Reply(h, Classify(r)).status # thread[t].reply.status

----------------------------------------------------------------------------
(* C29 *)

\* C29: when the client returns an envelope whose result is false to
\* get_product, get_order_details, get_orders or delete_order, the handler
\* answers with the status of the HTTPException it raises for that case (404
\* for the two details, 400 for the list and the deletion), not with 500.
C29_ResultFalseKeepsStatus ==
    \A t \in Threads :
        ( /\ thread[t].pc = "replied"
          /\ thread[t].endpoint \in {"get_product", "get_order_details",
                                     "get_orders", "delete_order"}
          /\ thread[t].outcome.kind = "returned"
          /\ thread[t].outcome.body.result = "false" )
        => \A h \in Handlers :
              h.name = thread[t].endpoint =>
                  /\ thread[t].reply.status = h.onFalse
                  /\ thread[t].reply.status # 500

----------------------------------------------------------------------------
(* A vendor that may never answer: requests.post at auth.py lines 45 / 91 and
   requests.request at client.py lines 91-97 are called without `timeout` *)

\* the steps that need nothing but the program itself
ProgramStep(t) ==
    \/ EnsureLoad(t)
    \/ ~credentials /\ GetAccessToken(t)
    \/ OpenTokenFile(t)
    \/ DumpToken(t)
    \/ Return(t)
    \/ Propagate(t)

\* thread t waits for the vendor's answer to a request it has sent, or is
\* about to send
Waiting(t) ==
    \/ credentials /\ thread[t].pc = "get_access_token"
    \/ thread[t].pc = "refresh_token"
    \/ /\ thread[t].pc = "done"
       /\ thread[t].caller = "_make_request"
       /\ thread[t].result = "ok"

\* the program always takes its own steps; the arrival of an answer (or of a
\* transport error) is up to the vendor and the network, and no timer ends
\* the wait
SpecNoAnswer ==
    /\ InitStorage
    /\ [][Step(MainThread)]_vars
    /\ WF_vars(ProgramStep(MainThread))

----------------------------------------------------------------------------
(* C26 *)

\* C26: every call of the guard or of _make_request that has begun
\* eventually ends, with a result or an error, even when the vendor never
\* answers.
C26_CallsEventuallyEnd ==
    (thread[MainThread].pc = "ensure")
        ~> (thread[MainThread].pc \in {"done", "end"}
                /\ ~Waiting(MainThread))

----------------------------------------------------------------------------
(* C28 *)

\* C28: when the guard run by _make_request ends with an error, the call
\* sends no business request and ends with the guard's error.
C28_GuardErrorSendsNothing ==
    \A t \in Threads :
        ( /\ thread[t].caller = "_make_request"
          /\ thread[t].result = "error" )
        => /\ thread[t].nSent = 0
           /\ thread[t].header = NoToken
           /\ thread[t].bresp = NoBusinessResponse
           /\ thread[t].pc = "end" =>
                thread[t].outcome.kind = "auth_error"

\* a call whose guard could not obtain a token has ended with the guard's
\* error, nothing sent
C28_Witness ==
    \E t \in Threads :
        /\ thread[t].caller = "_make_request"
        /\ thread[t].pc = "end"
        /\ thread[t].nAuth >= 1
        /\ thread[t].result = "error"
        /\ thread[t].outcome.kind = "auth_error"
        /\ thread[t].nSent = 0

----------------------------------------------------------------------------
(* POST /orders: main.py create_order, lines 974-1048 *)

\* os.getenv of a variable that is not set
Unset == "None"

\* DEFAULT_SHIPPING_INFO, lines 137-146: one value per environment variable
ShippingInfos ==
    [shippingZip : {"01 BP 1"},
     shippingCountryCode : {"BF"},
     shippingCountry : {"Burkina Faso"},
     shippingProvince : {"Kadiogo"},
     shippingCity : {"Ouagadougou"},
     shippingAddress : {"Avenue Kwame Nkrumah", Unset},
     shippingCustomerName : {"Depot Central", Unset},
     shippingPhone : {"+22670000000", Unset}]

\* ShippingInfo, lines 524-531: the final customer
CustomerInfos ==
    [customer_name : {"Awa Traore", "John Doe"},
     customer_phone : {"+22676543210", "+22660000001"},
     customer_address : {"Secteur 12", "Rue 9.15"},
     city : {"Ouagadougou", "Bobo-Dioulasso"},
     province : {"Kadiogo"},
     note : {Unset, "call first"}]

OrderProducts ==
    { <<[vid |-> "V1", quantity |-> 1]>>,
      <<[vid |-> "V1", quantity |-> 2], [vid |-> "V2", quantity |-> 1]>> }

\* CreateOrderRequest, lines 545-550, validated by the framework
CreateOrderRequests ==
    [order_ref : {"CMD-001"},
     products : OrderProducts,
     customer_info : CustomerInfos,
     logistic_name : {"CJPacket Ordinary"}]

\* the body with the shipping name and phone taken from the customer
create_order_customer(order_request, DEFAULT_SHIPPING_INFO, created_at) ==
    [order_id |-> "CJ-uuid",
     cj_order_id |-> Unset,
     status |-> "CREATED",
     created_at |-> created_at,
     products |-> [i \in DOMAIN order_request.products |->
                    [vid |-> order_request.products[i].vid,
                     quantity |-> order_request.products[i].quantity,
                     name |-> "Product Name",
                     price |-> 0]],
     shipping_info |->
        [name |-> order_request.customer_info.customer_name,
         phoneNumber |-> order_request.customer_info.customer_phone,
         email |-> "",
         address |-> DEFAULT_SHIPPING_INFO.shippingAddress,
         city |-> DEFAULT_SHIPPING_INFO.shippingCity,
         province |-> DEFAULT_SHIPPING_INFO.shippingProvince,
         country |-> DEFAULT_SHIPPING_INFO.shippingCountry,
         zip |-> DEFAULT_SHIPPING_INFO.shippingZip],
     tracking_number |-> Unset]

\* lines 988-1048: the body create_order returns.  No call of the client is
\* made (lines 1021-1028 are comments); the note built at lines 1016-1019
\* from customer_info is not part of the body.
create_order(order_request, DEFAULT_SHIPPING_INFO, created_at) ==
    [order_id |-> "CJ-uuid",
     cj_order_id |-> Unset,
     status |-> "CREATED",
     created_at |-> created_at,
     products |-> [i \in DOMAIN order_request.products |->
                    [vid |-> order_request.products[i].vid,
                     quantity |-> order_request.products[i].quantity,
                     name |-> "Product Name",
                     price |-> 0]],
     shipping_info |->
        [name |-> DEFAULT_SHIPPING_INFO.shippingCustomerName,
         phoneNumber |-> DEFAULT_SHIPPING_INFO.shippingPhone,
         email |-> "",
         address |-> DEFAULT_SHIPPING_INFO.shippingAddress,
         city |-> DEFAULT_SHIPPING_INFO.shippingCity,
         province |-> DEFAULT_SHIPPING_INFO.shippingProvince,
         country |-> DEFAULT_SHIPPING_INFO.shippingCountry,
         zip |-> DEFAULT_SHIPPING_INFO.shippingZip],
     tracking_number |-> Unset]

\* the handler runs on a validated request and answers 201 with the body
CreateOrder(t) ==
    /\ thread[t].pc = "idle"
    /\ \E order_request \in CreateOrderRequests, info \in ShippingInfos :
            thread' = [thread EXCEPT ![t] =
                [Idle EXCEPT
                    !.pc = "replied", !.op = "create_order",
                    !.endpoint = "create_order",
                    !.input = [order_request |-> order_request,
                               DEFAULT_SHIPPING_INFO |-> info],
                    !.output = create_order(order_request, info, now),
                    !.reply = Answer(201, "response", "body")]]
    /\ UNCHANGED <<tokenFile, now, credentials, access_token>>

NextOrders ==
    \/ CreateOrder(MainThread)
    \/ Replied(MainThread)
    \/ Tick

SpecOrders == InitEndpoints /\ [][NextOrders]_vars

----------------------------------------------------------------------------
(* C27 *)

\* the central address as create_order lays it out
CentralAddress(info) ==
    [name |-> info.shippingCustomerName,
     phoneNumber |-> info.shippingPhone,
     email |-> "",
     address |-> info.shippingAddress,
     city |-> info.shippingCity,
     province |-> info.shippingProvince,
     country |-> info.shippingCountry,
     zip |-> info.shippingZip]

----------------------------------------------------------------------------
(* debug_api, client.py lines 627-646.  A string is the sequence of its
   characters. *)

MaxPath == 3

\* the paths given to debug_api: every string of at most MaxPath characters
\* over three characters
PathChars == {"/", "p", "1"}
Paths == UNION {[1..n -> PathChars] : n \in 0..MaxPath}

SlashPrefix == <<"/", "a", "p", "i", "2", ".", "0", "/", "v", "1">>
BarePrefix == <<"a", "p", "i", "2", ".", "0", "/", "v", "1">>

\* str.startswith
startswith(s, prefix) ==
    /\ Len(s) >= Len(prefix)
    /\ SubSeq(s, 1, Len(prefix)) = prefix

\* the slice s[k:]
SliceFrom(s, k) == SubSeq(s, k + 1, Len(s))

\* lines 641-644: the endpoint handed to _make_request
StripVersion(endpoint) ==
    IF startswith(endpoint, SlashPrefix) THEN SliceFrom(endpoint, 10)
    ELSE IF startswith(endpoint, BarePrefix) THEN SliceFrom(endpoint, 8)
    ELSE endpoint

\* line 23 and line 80: url = f"{self.base_url}{endpoint}"
base_url ==
    <<"h", "t", "t", "p", "s", ":", "/", "/", "c", "j">> \o SlashPrefix
Url(endpoint) == base_url \o endpoint

\* the request debug_api issues: line 646, then lines 80 and 91-93
DebugRequest(endpoint, method) ==
    [method |-> method, url |-> Url(StripVersion(endpoint))]

\* debug_api is called: the endpoint is stripped and _make_request begins
\* with its guard
CallDebugApi(t) ==
    /\ thread[t].pc = "idle"
    /\ \E p \in Paths, form \in {"plain", "slash", "bare"},
          method \in {"GET", "POST"} :
          LET endpoint == CASE form = "plain" -> p
                            [] form = "slash" -> SlashPrefix \o p
                            [] form = "bare" -> BarePrefix \o p
          IN  thread' = [thread EXCEPT ![t] =
                [Idle EXCEPT
                    !.pc = "ensure", !.op = "ensure",
                    !.caller = "_make_request",
                    !.fileAtCall = tokenFile,
                    !.input = [form |-> form, path |-> p,
                               endpoint |-> endpoint, method |-> method],
                    !.output = DebugRequest(endpoint, method)]]
    /\ UNCHANGED <<tokenFile, now, credentials, access_token>>

InitDebug ==
    /\ tokenFile = json_dump(Obj("AT0", Expiry("Z", Far, 0), "RT0"))
    /\ now = 0
    /\ credentials = TRUE
    /\ access_token = NoToken
    /\ thread = [t \in Threads |-> Idle]

NextDebug ==
    \/ CallDebugApi(MainThread)
    \/ EnsureLoad(MainThread)
    \/ Dispatch(MainThread)
    \/ Finished(MainThread)

SpecDebug == InitDebug /\ [][NextDebug]_vars

----------------------------------------------------------------------------
(* C30 *)

\* C30: debug_api called with "/api2.0/v1" + p, or with "api2.0/v1" + p,
\* issues the request it issues when called with p alone: same method, same
\* URL.
C30_VersionPrefixStripped ==
    \A t \in Threads :
        ( /\ thread[t].caller = "_make_request"
          /\ thread[t].input # << >> )
        => thread[t].output =
                DebugRequest(thread[t].input.path, thread[t].input.method)

====
